---- MODULE Spec2Model ----
(***************************************************************************)
(* Model of boringtun's UDPSocket (src/device/udp_unix.rs): a socket2      *)
(* datagram socket plus the address-family tag it was created with.        *)
(*                                                                         *)
(* The methods of UDPSocket are the actions.  The calls they make into the *)
(* operating system are the Os... operators; they follow Linux's UDP       *)
(* sockets on the loopback interface: wildcard binds, SO_REUSEADDR /       *)
(* SO_REUSEPORT, dual-stack IPv6 sockets, bounded receive queues that drop *)
(* what does not fit, and shutdown() waking blocked receivers.             *)
(* Asynchronous ICMP errors are not modelled.                              *)
(***************************************************************************)
EXTENDS Integers, Sequences, FiniteSets, TLC

\* ------------------------------------------------------------------ bounds
NumHandles == 2
MaxPort    == 2
MaxMsgLen  == 2
BufLen     == 1
QueueCap   == 1
MaxMark    == 1
MaxOps     == 4
MaxOpsReuse == 6
MaxOpsIO   == 5

Handles  == 1..NumHandles
Ports    == 1..MaxPort
Marks    == 0..MaxMark

\* enum SocketFamily
SocketFamily == {"IpV4", "IpV6"}

\* the two kinds of SocketAddr, which are also the two socket domains
AddrFamilies == {"V4", "V6"}

\* the cfg(target_os) values under which set_fwmark is compiled
TargetOs == {"linux", "macos", "ios"}

\* ------------------------------------------------------------- addresses
\* std::net::SocketAddr: V4/V6, an ip (the wildcard, loopback, or the
\* IPv4-mapped loopback a dual-stack IPv6 socket sees) and a port
NoAddr == [fam |-> "none", ip |-> "none", port |-> 0]

SockAddr(fam, ip, port) == [fam |-> fam, ip |-> ip, port |-> port]

\* the addresses a caller passes to connect and sendto
DstAddrs == {SockAddr(f, "loopback", p) : f \in AddrFamilies, p \in Ports}

\* the byte strings a caller sends: 1, 2, ..., n
Msg(n) == [i \in 1..n |-> i]
Msgs   == {Msg(n) : n \in 0..MaxMsgLen}

\* the caller's receive buffer before the call
Buf0 == [i \in 1..BufLen |-> 0]

Min(a, b) == IF a <= b THEN a ELSE b

\* ----------------------------------------------------------------- state
VARIABLES
    target_os,  \* the platform the crate was built for
    v6only,     \* the system's default for IPV6_V6ONLY (bindv6only)
    state,      \* per handle: "none" (not created), "live", "dropped"
    family,     \* per handle: UDPSocket.family
    sock,       \* per handle: UDPSocket.socket, the OS socket
    blocked,    \* per handle: the receive call a thread is suspended in
    failed,     \* handles on which a consuming configuration step failed
    applied,    \* per handle: the configuration calls and shutdowns that returned Ok
    budget,     \* calls the program may still make in the run explored
    last        \* the last call and what it returned

vars == <<target_os, v6only, state, family, sock, blocked, failed, applied, budget, last>>

\* the OS socket behind a handle
ClosedSock ==
    [open |-> FALSE, domain |-> "none", port |-> 0, reuseaddr |-> FALSE, reuseport |-> FALSE,
     nonblocking |-> FALSE, peer |-> NoAddr, shut |-> FALSE, mark |-> 0,
     rcvq |-> <<>>]

\* Socket::new(domain, Type::dgram(), Some(Protocol::udp()))
FreshSock(domain) == [ClosedSock EXCEPT !.open = TRUE, !.domain = domain]

NoDgram == [srcport |-> 0, pktfam |-> "none", data |-> <<>>, from |-> 0]

\* what a call returned: res is Ok, Err, Panic or Blocked (the caller is
\* suspended); val the integer, addr the address, data the slice returned;
\* arg/msg the inputs; buf the caller's buffer after the call; dgram the
\* datagram a receive consumed; empty whether the queue was empty at the call
Ret(op, h, res, err, val, addr, data, arg, msg, buf, dgram, empty) ==
    [op |-> op, h |-> h, res |-> res, err |-> err, val |-> val, addr |-> addr,
     data |-> data, arg |-> arg, msg |-> msg, buf |-> buf, dgram |-> dgram,
     empty |-> empty]

Simple(op, h, res, err, val, arg) ==
    Ret(op, h, res, err, val, NoAddr, <<>>, arg, <<>>, <<>>, NoDgram, FALSE)

Start(oses, v6onlys, calls) ==
    /\ target_os \in oses
    /\ v6only \in v6onlys
    /\ budget = calls
    /\ state = [h \in Handles |-> "none"]
    /\ family = [h \in Handles |-> "IpV4"]
    /\ sock = [h \in Handles |-> ClosedSock]
    /\ blocked = [h \in Handles |-> "none"]
    /\ failed = {}
    /\ applied = [h \in Handles |-> {}]
    /\ last = Simple("init", 0, "Ok", "none", 0, NoAddr)

\* ------------------------------------------------- the operating system
\* a wildcard IPv6 socket also covers IPv4 unless IPV6_V6ONLY is set
Overlap(da, db) == da = db \/ ~v6only

\* the ports no open socket holds
FreePorts(s) == {p \in Ports : \A o \in Handles : ~(s[o].open /\ s[o].port = p)}

\* bind(2) of a wildcard address: another open socket holds the port and the
\* two do not both carry SO_REUSEPORT (or both SO_REUSEADDR)
BindConflict(s, h, port) ==
    \E o \in Handles \ {h} :
        /\ s[o].open
        /\ s[o].port = port
        /\ Overlap(s[h].domain, s[o].domain)
        /\ ~ \/ s[h].reuseport /\ s[o].reuseport
             \/ s[h].reuseaddr /\ s[o].reuseaddr

\* bind(2): the errno, or "none"
OsBindErr(s, h, addr) ==
    IF addr.fam # s[h].domain THEN "EAFNOSUPPORT"
    ELSE IF s[h].port # 0 THEN "EINVAL"
    ELSE IF addr.port = 0
         THEN IF FreePorts(s) = {} THEN "EADDRINUSE" ELSE "none"
    ELSE IF BindConflict(s, h, addr.port) THEN "EADDRINUSE"
    ELSE "none"

\* the local ports bind(2) may give the socket
OsBindPorts(s, addr) == IF addr.port = 0 THEN FreePorts(s) ELSE {addr.port}

\* the local ports a socket has after an implicit bind (connect or send on
\* an unbound socket takes an ephemeral port)
AutoPorts(s, h) == IF s[h].port # 0 THEN {s[h].port} ELSE FreePorts(s)

\* may a socket of this domain reach an address of this family
Reaches(domain, fam) == domain = fam \/ (domain = "V6" /\ fam = "V4" /\ ~v6only)

\* connect(2): the errno, or "none"
OsConnectErr(s, h, dst) ==
    IF ~Reaches(s[h].domain, dst.fam) THEN "EAFNOSUPPORT"
    ELSE IF AutoPorts(s, h) = {} THEN "EAGAIN"
    ELSE "none"

\* sendto(2)/send(2): the errno, or "none"
OsSendErr(s, h, dst) ==
    IF s[h].shut THEN "EPIPE"
    ELSE IF dst = NoAddr THEN "EDESTADDRREQ"
    ELSE IF ~Reaches(s[h].domain, dst.fam) THEN "EAFNOSUPPORT"
    ELSE IF AutoPorts(s, h) = {} THEN "EAGAIN"
    ELSE "none"

\* the sockets a datagram of family pktfam from srcport to dport may reach
Receivers(s, pktfam, srcport, dport) ==
    {r \in Handles :
        /\ s[r].open
        /\ s[r].port = dport
        /\ Reaches(s[r].domain, pktfam)
        /\ \/ s[r].peer = NoAddr
           \/ s[r].peer.fam = pktfam /\ s[r].peer.port = srcport}

\* the socket map after the datagram is queued on r; a full queue drops it,
\* and r = 0 stands for no receiver
Enqueue(s, r, d) ==
    IF r = 0 \/ Len(s[IF r = 0 THEN 1 ELSE r].rcvq) >= QueueCap THEN s
    ELSE [s EXCEPT ![r].rcvq = Append(@, d)]

\* the source address a receiving socket reports for a datagram
SeenSrc(domain, d) ==
    SockAddr(domain,
             IF d.pktfam = domain THEN "loopback" ELSE "mapped_loopback",
             d.srcport)

\* recvfrom(2)/recv(2) on socket record so into buffer buf: a datagram is
\* copied (and cut to the buffer), else EAGAIN on a non-blocking socket,
\* else 0 bytes and no address after shutdown, else the caller sleeps
OsRecv(so, buf) ==
    IF so.rcvq # <<>> THEN
        LET d == Head(so.rcvq)
            len == Min(Len(d.data), Len(buf))
        IN [kind |-> "data", len |-> len,
            buf |-> [i \in 1..Len(buf) |-> IF i <= len THEN d.data[i] ELSE buf[i]],
            addr |-> SeenSrc(so.domain, d), dgram |-> d]
    ELSE IF so.nonblocking THEN
        [kind |-> "wouldblock", len |-> 0, buf |-> buf, addr |-> NoAddr,
         dgram |-> NoDgram]
    ELSE IF so.shut THEN
        [kind |-> "eof", len |-> 0, buf |-> buf, addr |-> NoAddr,
         dgram |-> NoDgram]
    ELSE
        [kind |-> "block", len |-> 0, buf |-> buf, addr |-> NoAddr,
         dgram |-> NoDgram]

\* SockAddr::as_std(): Some only for an AF_INET or AF_INET6 address
AsStd(addr) == IF addr.fam \in AddrFamilies THEN addr ELSE NoAddr

\* --------------------------------------------------------------- handles
\* one more call by the program, within the budget explored
Call == budget > 0 /\ budget' = budget - 1

\* a handle its owner can pass by value: alive and not lent to a receive
Owned(h) == state[h] = "live" /\ blocked[h] = "none"

\* a handle that can be borrowed (&self)
Borrowable(h) == state[h] = "live"

\* a consuming method returned Err: self was dropped, which closes the socket
Consumed(h, ret) ==
    /\ state' = [state EXCEPT ![h] = "dropped"]
    /\ sock' = [sock EXCEPT ![h] = ClosedSock]
    /\ failed' = failed \cup {h}
    /\ applied' = [applied EXCEPT ![h] = {}]
    /\ last' = ret
    /\ Call
    /\ UNCHANGED <<target_os, v6only, family, blocked>>

\* a consuming method returned Ok(self) with the socket map now s
Returned(s, ret) ==
    /\ sock' = s
    /\ applied' = [applied EXCEPT ![ret.h] = @ \cup {ret.op}]
    /\ last' = ret
    /\ Call
    /\ UNCHANGED <<target_os, v6only, state, family, blocked, failed>>

\* ------------------------------------------------------------- factories
\* handles are taken in order
NextFree(h) == state[h] = "none" /\ \A g \in Handles : g < h => state[g] # "none"

Created(h, ok, op, domain, fam) ==
    /\ NextFree(h)
    /\ IF ok
       THEN /\ state' = [state EXCEPT ![h] = "live"]
            /\ sock' = [sock EXCEPT ![h] = FreshSock(domain)]
            /\ family' = [family EXCEPT ![h] = fam]
            /\ last' = Simple(op, h, "Ok", "none", 0, NoAddr)
       ELSE /\ UNCHANGED <<state, sock, family>>
            /\ last' = Simple(op, 0, "Err", "EMFILE", 0, NoAddr)
    /\ Call
    /\ UNCHANGED <<target_os, v6only, blocked, failed, applied>>

\* UDPSocket::new
New(h) == \E ok \in BOOLEAN : Created(h, ok, "new", "V4", "IpV4")

\* UDPSocket::new6
New6(h) == \E ok \in BOOLEAN : Created(h, ok, "new6", "V6", "IpV6")

\* --------------------------------------------------------- configuration
\* mutant: bind takes the IPv4 wildcard whatever the family
BindSockaddrV4Only(fam, port) == SockAddr("V4", "unspecified", port)

\* the match in bind: the wildcard address of the handle's family
BindSockaddr(fam, port) ==
    IF fam = "IpV4" THEN SockAddr("V4", "unspecified", port)
    ELSE SockAddr("V6", "unspecified", port)

\* UDPSocket::bind
Bind(h, port) ==
    /\ Owned(h)
    /\ LET sockaddr == BindSockaddr(family[h], port)
           err == OsBindErr(sock, h, sockaddr)
       IN IF err = "none"
          THEN \E p \in OsBindPorts(sock, sockaddr) :
                 Returned([sock EXCEPT ![h].port = p],
                          Simple("bind", h, "Ok", "none", p, sockaddr))
          ELSE Consumed(h, Simple("bind", h, "Err", err, port, sockaddr))

\* UDPSocket::connect
Connect(h, dst) ==
    /\ Owned(h)
    /\ LET err == OsConnectErr(sock, h, dst)
       IN IF err = "none"
          THEN \E p \in AutoPorts(sock, h) :
                 Returned([sock EXCEPT ![h].port = p, ![h].peer = dst],
                          Simple("connect", h, "Ok", "none", 0, dst))
          ELSE Consumed(h, Simple("connect", h, "Err", err, 0, dst))

\* mutant: set_nonblocking(false)
SetNonBlockingOff(h) ==
    /\ Owned(h)
    /\ \E ok \in BOOLEAN :
         IF ok
         THEN Returned([sock EXCEPT ![h].nonblocking = FALSE],
                       Simple("set_non_blocking", h, "Ok", "none", 0, NoAddr))
         ELSE Consumed(h, Simple("set_non_blocking", h, "Err", "EIO", 0, NoAddr))

\* UDPSocket::set_non_blocking
SetNonBlocking(h) ==
    /\ Owned(h)
    /\ \E ok \in BOOLEAN :
         IF ok
         THEN Returned([sock EXCEPT ![h].nonblocking = TRUE],
                       Simple("set_non_blocking", h, "Ok", "none", 0, NoAddr))
         ELSE Consumed(h, Simple("set_non_blocking", h, "Err", "EIO", 0, NoAddr))

\* mutant: both options are passed false
SetReuseOutcomeUnset(okAddr, okPort) ==
    IF ~okAddr \/ ~okPort
    THEN [res |-> "Err", err |-> "ENOPROTOOPT", addr |-> FALSE, port |-> FALSE]
    ELSE [res |-> "Ok", err |-> "none", addr |-> FALSE, port |-> FALSE]

\* mutant: a failure of set_reuse_port is ignored
SetReuseOutcomeIgnorePort(okAddr, okPort) ==
    IF ~okAddr THEN [res |-> "Err", err |-> "ENOPROTOOPT", addr |-> FALSE, port |-> FALSE]
    ELSE [res |-> "Ok", err |-> "none", addr |-> TRUE, port |-> okPort]

\* the two setsockopt calls of set_reuse: the result and the options the
\* returned handle carries (none when self was dropped)
SetReuseOutcome(okAddr, okPort) ==
    IF ~okAddr THEN [res |-> "Err", err |-> "ENOPROTOOPT", addr |-> FALSE, port |-> FALSE]
    ELSE IF ~okPort THEN [res |-> "Err", err |-> "ENOPROTOOPT", addr |-> TRUE, port |-> FALSE]
    ELSE [res |-> "Ok", err |-> "none", addr |-> TRUE, port |-> TRUE]

\* UDPSocket::set_reuse
SetReuse(h) ==
    /\ Owned(h)
    /\ \E okAddr, okPort \in BOOLEAN :
         LET o == SetReuseOutcome(okAddr, okPort)
         IN IF o.res = "Ok"
            THEN Returned([sock EXCEPT ![h].reuseaddr = o.addr, ![h].reuseport = o.port],
                          Simple("set_reuse", h, "Ok", "none", 0, NoAddr))
            ELSE Consumed(h, Simple("set_reuse", h, "Err", o.err, 0, NoAddr))

\* the owner lets go of the handle: Socket's Drop closes the descriptor
Drop(h) ==
    /\ Owned(h)
    /\ state' = [state EXCEPT ![h] = "dropped"]
    /\ sock' = [sock EXCEPT ![h] = ClosedSock]
    /\ applied' = [applied EXCEPT ![h] = {}]
    /\ last' = Simple("drop", h, "Ok", "none", 0, NoAddr)
    /\ Call
    /\ UNCHANGED <<target_os, v6only, family, blocked, failed>>

\* --------------------------------------------------------- introspection
\* mutant: the linux variant drops the error of set_mark
SetFwmarkOutcomeSwallow(os, okOs, old, mark) ==
    IF os = "linux" /\ okOs THEN [res |-> "Ok", err |-> "none", mark |-> mark]
    ELSE [res |-> "Ok", err |-> "none", mark |-> old]

\* the two cfg variants of set_fwmark: what it returns and the SO_MARK the
\* socket carries afterwards (okOs: did setsockopt succeed)
SetFwmarkOutcome(os, okOs, old, mark) ==
    IF os = "linux"
    THEN IF okOs THEN [res |-> "Ok", err |-> "none", mark |-> mark]
         ELSE [res |-> "Err", err |-> "EPERM", mark |-> old]
    ELSE [res |-> "Ok", err |-> "none", mark |-> old]

\* UDPSocket::set_fwmark
SetFwmark(h, mark) ==
    /\ Borrowable(h)
    /\ \E okOs \in BOOLEAN :
         LET o == SetFwmarkOutcome(target_os, okOs, sock[h].mark, mark)
         IN /\ sock' = [sock EXCEPT ![h].mark = o.mark]
            /\ last' = Simple("set_fwmark", h, o.res, o.err, mark, NoAddr)
    /\ Call
    /\ UNCHANGED <<target_os, v6only, state, family, blocked, failed, applied>>

\* getsockname(2): an unbound socket reports the wildcard address, port 0
OsLocalAddr(so) ==
    SockAddr(so.domain, IF so.peer = NoAddr THEN "unspecified" ELSE "loopback",
             so.port)

\* mutant: an unbound socket is reported as an error
PortOutcomeUnboundErr(so) ==
    IF so.port = 0 THEN [res |-> "Err", val |-> 0]
    ELSE [res |-> "Ok", val |-> so.port]

\* the body of port(): local_addr()?.as_std().expect(..).port()
PortOutcome(so) ==
    LET std == AsStd(OsLocalAddr(so))
    IN IF std = NoAddr THEN [res |-> "Panic", val |-> 0]
       ELSE [res |-> "Ok", val |-> std.port]

\* UDPSocket::port
Port(h) ==
    /\ Borrowable(h)
    /\ LET o == PortOutcome(sock[h])
       IN last' = Simple("port", h, o.res, "none", o.val, NoAddr)
    /\ Call
    /\ UNCHANGED <<target_os, v6only, state, family, sock, blocked, failed, applied>>

\* -------------------------------------------------------------------- I/O
\* what sendto and write return: the count the OS accepted, or its error
SendOutcome(err, msg) ==
    IF err = "none" THEN [res |-> "Ok", val |-> Len(msg)]
    ELSE [res |-> "Err", val |-> 0]

\* send_to / send: the datagram leaves from the socket's (possibly fresh)
\* local port and is queued on one of the sockets it may reach
Sent(op, h, msg, dst) ==
    LET err == OsSendErr(sock, h, dst)
        o == SendOutcome(err, msg)
        ret == Ret(op, h, o.res, err, o.val, NoAddr, <<>>, dst, msg, <<>>,
                   NoDgram, FALSE)
    IN /\ IF err = "none"
          THEN \E p \in AutoPorts(sock, h) :
                 LET s1 == [sock EXCEPT ![h].port = p]
                     d == [srcport |-> p, pktfam |-> dst.fam, data |-> msg,
                           from |-> h]
                     rs == Receivers(s1, dst.fam, p, dst.port)
                 IN \E r \in (IF rs = {} THEN {0} ELSE rs) :
                      sock' = Enqueue(s1, r, d)
          ELSE sock' = sock
       /\ last' = ret
       /\ Call
       /\ UNCHANGED <<target_os, v6only, state, family, blocked, failed, applied>>

\* UDPSocket::sendto
Sendto(h, msg, dst) == Borrowable(h) /\ Sent("sendto", h, msg, dst)

\* UDPSocket::write
Write(h, msg) == Borrowable(h) /\ Sent("write", h, msg, sock[h].peer)

\* mutant: the whole buffer is returned
SliceWhole(buf, len) == buf

\* &mut buf[..len]
Slice(buf, len) == SubSeq(buf, 1, len)

\* what recvfrom returns for an outcome of the OS call
RecvfromOutcome(r) ==
    IF r.kind = "wouldblock"
    THEN [res |-> "Err", err |-> "EAGAIN", addr |-> NoAddr, data |-> <<>>]
    ELSE IF AsStd(r.addr) = NoAddr
         THEN [res |-> "Panic", err |-> "none", addr |-> NoAddr, data |-> <<>>]
    ELSE [res |-> "Ok", err |-> "none", addr |-> AsStd(r.addr),
          data |-> Slice(r.buf, r.len)]

\* what read returns for an outcome of the OS call
ReadOutcome(r) ==
    IF r.kind = "wouldblock"
    THEN [res |-> "Err", err |-> "EAGAIN", addr |-> NoAddr, data |-> <<>>]
    ELSE [res |-> "Ok", err |-> "none", addr |-> NoAddr,
          data |-> Slice(r.buf, r.len)]

\* a receive call returns: the datagram, if any, leaves the queue
Received(op, h, r, o, empty) ==
    /\ sock' = [sock EXCEPT ![h].rcvq = IF r.kind = "data" THEN Tail(@) ELSE @]
    /\ blocked' = [blocked EXCEPT ![h] = "none"]
    /\ last' = Ret(op, h, o.res, o.err, r.len, o.addr, o.data, NoAddr, <<>>,
                   r.buf, r.dgram, empty)
    /\ UNCHANGED <<target_os, v6only, state, family, failed, applied>>

\* a receive call finds nothing and the socket is in blocking mode: the
\* calling thread sleeps in the OS
Suspended(op, h) ==
    /\ blocked' = [blocked EXCEPT ![h] = op]
    /\ last' = Ret(op, h, "Blocked", "none", 0, NoAddr, <<>>, NoAddr, <<>>,
                   Buf0, NoDgram, TRUE)
    /\ UNCHANGED <<target_os, v6only, state, family, sock, failed, applied>>

\* UDPSocket::recvfrom
Recvfrom(h) ==
    /\ Owned(h)
    /\ Call
    /\ LET r == OsRecv(sock[h], Buf0)
       IN IF r.kind = "block" THEN Suspended("recvfrom", h)
          ELSE Received("recvfrom", h, r, RecvfromOutcome(r), sock[h].rcvq = <<>>)

\* UDPSocket::recvfrom, the suspended call waking up
RecvfromWake(h) ==
    /\ Borrowable(h)
    /\ blocked[h] = "recvfrom"
    /\ UNCHANGED budget
    /\ LET r == OsRecv(sock[h], Buf0)
       IN /\ r.kind # "block"
          /\ Received("recvfrom", h, r, RecvfromOutcome(r), TRUE)

\* UDPSocket::read
Read(h) ==
    /\ Owned(h)
    /\ Call
    /\ LET r == OsRecv(sock[h], Buf0)
       IN IF r.kind = "block" THEN Suspended("read", h)
          ELSE Received("read", h, r, ReadOutcome(r), sock[h].rcvq = <<>>)

\* UDPSocket::read, the suspended call waking up
ReadWake(h) ==
    /\ Borrowable(h)
    /\ blocked[h] = "read"
    /\ UNCHANGED budget
    /\ LET r == OsRecv(sock[h], Buf0)
       IN /\ r.kind # "block"
          /\ Received("read", h, r, ReadOutcome(r), TRUE)

\* shutdown(2) with SHUT_RDWR: ENOTCONN on an unconnected socket
OsShutdownErr(so) == IF so.peer = NoAddr THEN "ENOTCONN" ELSE "none"

\* mutant: Shutdown::Write, which leaves the receiving side alone
ShutdownWrite(h) ==
    /\ Borrowable(h)
    /\ LET err == OsShutdownErr(sock[h])
       IN /\ last' = Simple("shutdown", h, IF err = "none" THEN "Ok" ELSE "Err",
                            err, 0, NoAddr)
          /\ applied' = [applied EXCEPT
                           ![h] = IF err = "none" THEN @ \cup {"shutdown"} ELSE @]
    /\ Call
    /\ UNCHANGED <<target_os, v6only, state, family, sock, blocked, failed>>

\* UDPSocket::shutdown (the socket is marked shut down even when the call
\* reports ENOTCONN; the descriptor stays open)
Shutdown(h) ==
    /\ Borrowable(h)
    /\ LET err == OsShutdownErr(sock[h])
       IN /\ last' = Simple("shutdown", h, IF err = "none" THEN "Ok" ELSE "Err",
                            err, 0, NoAddr)
          /\ applied' = [applied EXCEPT
                           ![h] = IF err = "none" THEN @ \cup {"shutdown"} ELSE @]
    /\ sock' = [sock EXCEPT ![h].shut = TRUE]
    /\ Call
    /\ UNCHANGED <<target_os, v6only, state, family, blocked, failed>>

\* UDPSocket::as_raw_fd: a borrowed view of the descriptor
AsRawFd(h) ==
    /\ Borrowable(h)
    /\ last' = Simple("as_raw_fd", h, "Ok", "none", h, NoAddr)
    /\ Call
    /\ UNCHANGED <<target_os, v6only, state, family, sock, blocked, failed, applied>>

\* ------------------------------------------------------------------ spec
Init == Start(TargetOs, BOOLEAN, MaxOps)

Next ==
    \/ \E h \in Handles : New(h)
    \/ \E h \in Handles : New6(h)
    \/ \E h \in Handles, port \in 0..MaxPort : Bind(h, port)
    \/ \E h \in Handles, dst \in DstAddrs : Connect(h, dst)
    \/ \E h \in Handles : SetNonBlocking(h)
    \/ \E h \in Handles : SetReuse(h)
    \/ \E h \in Handles, mark \in Marks : SetFwmark(h, mark)
    \/ \E h \in Handles : Port(h)
    \/ \E h \in Handles, msg \in Msgs, dst \in DstAddrs : Sendto(h, msg, dst)
    \/ \E h \in Handles : Recvfrom(h)
    \/ \E h \in Handles : RecvfromWake(h)
    \/ \E h \in Handles : Read(h)
    \/ \E h \in Handles : ReadWake(h)
    \/ \E h \in Handles, msg \in Msgs : Write(h, msg)
    \/ \E h \in Handles : Shutdown(h)
    \/ \E h \in Handles : AsRawFd(h)
    \/ \E h \in Handles : Drop(h)

Spec == Init /\ [][Next]_vars

\* configuration only: sockets sharing and contending for local ports
InitReuse == Start({"linux"}, BOOLEAN, MaxOpsReuse)

NextReuse ==
    \/ \E h \in Handles : New(h)
    \/ \E h \in Handles : New6(h)
    \/ \E h \in Handles : SetReuse(h)
    \/ \E h \in Handles, port \in 0..MaxPort : Bind(h, port)
    \/ \E h \in Handles : Drop(h)

SpecReuse == InitReuse /\ [][NextReuse]_vars

\* datagram traffic between the handles, on a dual-stack system
InitIO == Start({"linux"}, {FALSE}, MaxOpsIO)

NextIO ==
    \/ \E h \in Handles : New(h)
    \/ \E h \in Handles : New6(h)
    \/ \E h \in Handles, port \in 0..MaxPort : Bind(h, port)
    \/ \E h \in Handles, dst \in DstAddrs : Connect(h, dst)
    \/ \E h \in Handles : SetNonBlocking(h)
    \/ \E h \in Handles, msg \in Msgs, dst \in DstAddrs : Sendto(h, msg, dst)
    \/ \E h \in Handles : Recvfrom(h)
    \/ \E h \in Handles : RecvfromWake(h)
    \/ \E h \in Handles : Read(h)
    \/ \E h \in Handles : ReadWake(h)
    \/ \E h \in Handles, msg \in Msgs : Write(h, msg)
    \/ \E h \in Handles : Shutdown(h)

SpecIO == InitIO /\ [][NextIO]_vars

\* the OS wakes a thread sleeping in recv once the socket has something for it
SpecIOFair ==
    /\ SpecIO
    /\ \A h \in Handles : WF_vars(ReadWake(h)) /\ WF_vars(RecvfromWake(h))

\* ---------------------------------------------------------------- claims
\* the address family of a handle's tag
FamOf(tag) == IF tag = "IpV4" THEN "V4" ELSE "V6"

\* the last call was connect or sendto with an address of the other family
MismatchCall ==
    /\ last.op \in {"connect", "sendto"}
    /\ last.arg.fam # FamOf(family[last.h])

\* C1: connect and sendto to an address whose family differs from the
\* handle's fail fast: they panic, and neither succeed nor return an error
\* value.
C1_MismatchPanics == MismatchCall => last.res = "Panic"

\* C2: the family tag is the one the factory gave (new: IPv4, new6: IPv6),
\* no later call changes it, whether it succeeds or fails, and bind uses the
\* wildcard address of that family with the port asked for.
C2_FamilyFixed ==
    /\ [](/\ (last.op = "new" /\ last.res = "Ok") => family[last.h] = "IpV4"
          /\ (last.op = "new6" /\ last.res = "Ok") => family[last.h] = "IpV6"
          /\ \A h \in Handles :
               state[h] = "live" => sock[h].domain = FamOf(family[h])
          /\ last.op = "bind" =>
               /\ last.arg.fam = FamOf(family[last.h])
               /\ last.arg.ip = "unspecified")
    /\ [][\A h \in Handles : state[h] # "none" => family'[h] = family[h]]_vars

C2_Witness ==
    /\ last.op = "bind"
    /\ last.res = "Ok"
    /\ family[last.h] = "IpV6"
    /\ last.arg = SockAddr("V6", "unspecified", 1)

\* the live handles of h's family, other than h, that hold port p
Holders(h, p) ==
    {o \in Handles \ {h} :
        state[o] = "live" /\ sock[o].port = p /\ family[o] = family[h]}

\* C3: when an unbound handle binds a port that live handles of its family
\* hold, the bind succeeds if set_reuse() was applied to it and to every
\* holder, and it returns an error, creating no second binding, if
\* set_reuse() was not applied to it or to a holder.
C3_ReuseContract ==
    [][\A h \in Handles, p \in Ports :
         (Bind(h, p) /\ sock[h].port = 0 /\ Holders(h, p) # {}) =>
            IF /\ "set_reuse" \in applied[h]
               /\ \A o \in Holders(h, p) : "set_reuse" \in applied[o]
            THEN /\ last'.res = "Ok"
                 /\ state'[h] = "live"
                 /\ sock'[h].port = p
            ELSE /\ last'.res = "Err"
                 /\ sock'[h].port # p
                 /\ state'[h] = "dropped"]_vars

C3_Witness ==
    \E h, o \in Handles :
        /\ h # o
        /\ family[h] = family[o]
        /\ state[h] = "live" /\ state[o] = "live"
        /\ sock[h].port = 1 /\ sock[o].port = 1
        /\ last.op = "bind" /\ last.res = "Ok"

\* C4: a successful sendto returns the length of the message; a successful
\* recvfrom returns the sender's address (its local port, on loopback) and
\* the first len bytes of the caller's buffer, len being the count the OS
\* reported, and these are the message byte for byte when it fits the buffer.
C4_RoundTrip ==
    /\ (last.op = "sendto" /\ last.res = "Ok") => last.val = Len(last.msg)
    /\ (last.op = "recvfrom" /\ last.res = "Ok") =>
         LET d == last.dgram IN
         /\ d # NoDgram
         /\ last.val = Min(Len(d.data), BufLen)
         /\ last.data = [i \in 1..last.val |-> last.buf[i]]
         /\ Len(d.data) <= BufLen => last.data = d.data
         /\ last.addr.port = d.srcport
         /\ last.addr.ip \in {"loopback", "mapped_loopback"}
         /\ state[d.from] = "live" => sock[d.from].port = last.addr.port

C4_Witness ==
    /\ last.op = "recvfrom"
    /\ last.res = "Ok"
    /\ last.dgram.from # last.h
    /\ last.data = Msg(1)
    /\ last.addr = SockAddr("V4", "loopback", sock[last.dgram.from].port)

\* C5: once set_non_blocking() has succeeded on a handle, the handle stays
\* non-blocking through every later call, no receive on it leaves the caller
\* suspended, and a recvfrom or read issued while no datagram is pending
\* returns the would-block error.
C5_NonBlocking ==
    /\ \A h \in Handles :
         "set_non_blocking" \in applied[h] =>
            /\ state[h] = "live"
            /\ sock[h].nonblocking
            /\ blocked[h] = "none"
    /\ (/\ last.op \in {"recvfrom", "read"}
        /\ "set_non_blocking" \in applied[last.h]
        /\ last.empty) =>
         /\ last.res = "Err"
         /\ last.err = "EAGAIN"

C5_Witness ==
    /\ last.op = "recvfrom"
    /\ "set_non_blocking" \in applied[last.h]
    /\ last.empty
    /\ last.res = "Err"

C7_ReadAfterShutdownEof ==
    (/\ last.op = "read"
     /\ "shutdown" \in applied[last.h]
     /\ last.dgram = NoDgram) =>
       (last.res = "Ok" /\ last.val = 0)

\* C7 as amended: shutdown() leaves the handle alive and its socket open.
\* After it has returned Ok, a read blocked on the handle returns, and a read
\* on a handle in blocking mode never suspends: it returns the pending
\* datagram, or Ok with zero bytes when none is pending.  On a non-blocking
\* handle a read that finds no datagram still returns the would-block error.
C7_Shutdown ==
    /\ [](/\ \A h \in Handles :
               "shutdown" \in applied[h] => (state[h] = "live" /\ sock[h].open)
          /\ (last.op = "read" /\ "shutdown" \in applied[last.h]) =>
               IF last.dgram # NoDgram THEN last.res = "Ok"
               ELSE IF sock[last.h].nonblocking
                    THEN last.res = "Err" /\ last.err = "EAGAIN"
               ELSE last.res = "Ok" /\ last.val = 0 /\ last.data = <<>>)
    /\ [][\A h \in Handles :
            Shutdown(h) => (state'[h] = "live" /\ sock'[h].open)]_vars
    /\ \A h \in Handles :
         (blocked[h] = "read" /\ "shutdown" \in applied[h]) ~> (blocked[h] = "none")

C7_Witness ==
    \E h \in Handles :
        /\ blocked[h] = "read"
        /\ "shutdown" \in applied[h]
        /\ sock[h].rcvq = <<>>

\* C8: port() on a handle created by new6 panics; only IPv4 handles get a
\* port number.
C8_Port6Panics ==
    (last.op = "port" /\ family[last.h] = "IpV6") => last.res = "Panic"

ConfigOps == {"bind", "connect", "set_non_blocking", "set_reuse"}

\* C10: a consuming configuration call that fails hands back only the error:
\* the handle is dropped and its socket closed, no later call is made on it,
\* and no handle carrying only one of the two reuse options is ever handed
\* back.
C10_FailedConsumed ==
    /\ [](/\ \A h \in failed : state[h] = "dropped" /\ ~sock[h].open
          /\ (last.op \in ConfigOps /\ last.res = "Err") => last.h \in failed
          /\ \A h \in Handles :
               state[h] = "live" => sock[h].reuseaddr = sock[h].reuseport)
    /\ [][\A h \in failed :
            /\ last'.h # h
            /\ state'[h] = "dropped"
            /\ sock'[h] = ClosedSock]_vars

C10_Witness ==
    /\ last.op = "set_reuse"
    /\ last.res = "Err"
    /\ last.h \in failed
    /\ state[last.h] = "dropped"

====
